---- MODULE Spec2Model ----
(***************************************************************************)
(* Sidekick CLI: the request lifecycle (cli/repl.py process_request), the  *)
(* tool confirmation gate (_tool_handler), the supervisor loop (repl) with *)
(* its commands (cli/commands.py) and the escape binding (_cancel).        *)
(*                                                                         *)
(* One "run" is one execution of process_request: either a background task *)
(* created by repl for a plain-text line, or the execution awaited inline  *)
(* by CompactCommand.execute.                                              *)
(*                                                                         *)
(* Suspension points of a run that the model keeps apart: the creation of  *)
(* the spinner (first await, before the try block), the await of the next  *)
(* node of the agent run, the await that announces a tool call, the        *)
(* blocking confirmation prompt, and the await that prints the final       *)
(* answer.  The notices written by the except/finally handlers are written *)
(* in the step that runs the handler.                                      *)
(***************************************************************************)
EXTENDS Integers, Sequences, FiniteSets, TLC

(* ---------------------------- bounds ---------------------------------- *)
\* number of process_request executions started in one behaviour
MaxRuns == 2
\* number of tool-call ids the model hands out in one behaviour
MaxCalls == 2
\* tool-call parts carried by one model response
MaxParts == 2
\* transcript length up to which the agent run yields further nodes
MaxLen == 5
\* process_request executions alive at the same time
MaxAlive == 2
\* names in session.tool_ignore in a behaviour of the tool handler
MaxIgnore == 3
\* agents create_agent makes in a behaviour of the legacy agent
MaxAgents == 3
\* lines of a text handed to the diff
MaxLines == 3

(* --------------------------- vocabulary -------------------------------- *)
\* tool names the stubbed model asks for: one built-in tool, one MCP tool
Tools == {"run_command", "fetch"}
\* shapes of part.args the stubbed model sends in a stream
StreamArgs == {"json", "notjson"}

ABORT_MSG == "Operation aborted by user."
MODEL_ERR == "model behaviour error"

NoticeBusy == [style |-> "muted", text |-> "Agent is busy, press esc to interrupt."]
NoticeCancelled == [style |-> "muted", text |-> "Request cancelled"]
NoticeAborted == [style |-> "muted", text |-> "Operation aborted."]
NoticeModelError == [style |-> "muted", text |-> MODEL_ERR]
NoticeError == [style |-> "error", text |-> "exception"]
NoticeAnswer == [style |-> "agent", text |-> "answer"]
NoticeCompacted == [style |-> "success", text |-> "Context history has been summarized and truncated."]
NoticeYoloOn == [style |-> "success", text |-> "Ooh shit, its YOLO time!"]
NoticeYoloOff == [style |-> "info", text |-> "Pfft, boring..."]
NoticePanel == [style |-> "panel", text |-> "confirm"]
NoticeTool(name) == [style |-> "info", text |-> name]

VARIABLES
  messages,      \* session.messages: the transcript
  tool_ignore,   \* session.tool_ignore: a list of tool names
  yolo,          \* session.yolo
  spinner,       \* session.spinner: "none" | "running" | "stopped"
  current_task,  \* session.current_task: 0 for None, else the run of the task
  runs,          \* the executions of process_request, by number
  nruns,         \* how many executions were started
  next_id,       \* tool-call ids handed out so far
  sup,           \* the repl coroutine: "prompt" | "awaiting" (inside /compact)
                 \* | "crashed" (an exception left repl)
  event,         \* the user input the last step handled: a line or key at
                 \* the main prompt, the line typed at a confirmation
                 \* prompt, "" when the step read no input; for a direct
                 \* call of a method, the name of the method
  sink,          \* what the last step wrote to the terminal
  current_model, \* session.current_model
  result,        \* the last call of a ToolHandler method and what it returned
  agent_run,     \* MainAgent.process_request: the run opened by agent.iter
  files,         \* the files the tools read and write, by path
  agents         \* session.agents, and how many agents create_agent has made

vars == <<messages, tool_ignore, yolo, spinner, current_task, runs, nruns,
          next_id, sup, event, sink, current_model, result, agent_run,
          files, agents>>

\* what the request lifecycle of cli/repl.py never writes
aside == <<current_model, result, agent_run, files, agents>>

Runs == 1..MaxRuns

(* ---------------------- transcript entries ----------------------------- *)
Part(k, id, name, args, content) ==
  [part_kind |-> k, tool_call_id |-> id, tool_name |-> name, args |-> args,
   content |-> content]

UserPromptPart == Part("user-prompt", 0, "", "", "prompt")
TextPart == Part("text", 0, "", "", "text")
ToolCallPart(id, name, args) == Part("tool-call", id, name, args, "")
ToolReturnPart(id, name, content) == Part("tool-return", id, name, "", content)

ModelRequest(parts) == [kind |-> "request", parts |-> parts]
ModelResponse(parts) == [kind |-> "response", parts |-> parts]

RECURSIVE PartsOf(_)
\* all parts of a transcript, in transcript order
PartsOf(msgs) ==
  IF msgs = <<>> THEN <<>> ELSE Head(msgs).parts \o PartsOf(Tail(msgs))

IsToolCall(p) == p.part_kind = "tool-call"
IsToolReturn(p) == p.part_kind = "tool-return"

SeqRange(s) == {s[i] : i \in 1..Len(s)}

ReturnedIds(msgs) ==
  {p.tool_call_id : p \in {q \in SeqRange(PartsOf(msgs)) : IsToolReturn(q)}}

\* the tool calls of the transcript that no tool return answers, in order
Unanswered(msgs) ==
  SelectSeq(PartsOf(msgs),
            LAMBDA p : IsToolCall(p) /\ p.tool_call_id \notin ReturnedIds(msgs))

\* appends one synthetic tool return per unanswered tool call
patch_tool_messages(msgs, error_message) ==
  LET u == Unanswered(msgs) IN
  msgs \o [i \in 1..Len(u) |->
            ModelRequest(<<ToolReturnPart(u[i].tool_call_id, u[i].tool_name,
                                          error_message)>>)]

\* session.messages.append(...), with the entry put in front instead
PrependNode(msgs, m) == <<m>> \o msgs

\* session.messages.append(node.request), .append(node.model_response)
AppendNode(msgs, m) == Append(msgs, m)

\* a truncation that keeps one entry
LastOne(msgs) ==
  IF Len(msgs) <= 1 THEN msgs ELSE SubSeq(msgs, Len(msgs), Len(msgs))

\* messages[-2:]
LastTwo(msgs) ==
  IF Len(msgs) <= 2 THEN msgs ELSE SubSeq(msgs, Len(msgs) - 1, Len(msgs))

(* ------------------------- tool confirmation --------------------------- *)
\* what a call gives back: a value, or the name of the exception it raises
Returned(v) == [raised |-> "", value |-> v]
Raised(e) == [raised |-> e, value |-> <<>>]

\* the args of a tool-call part: a string, a dict, or a value of another type
ArgStr(text) == [type |-> "str", text |-> text, value |-> <<>>]
ArgDict(value) == [type |-> "dict", text |-> "", value |-> value]
ArgOther == [type |-> "other", text |-> "", value |-> <<>>]

\* the strings json.loads decodes, and what it decodes them to
ValidJson == {"{\"filepath\": \"a.txt\"}", "{}"}

json_loads(text) ==
  CASE text = "{\"filepath\": \"a.txt\"}" -> [filepath |-> "a.txt"]
    [] text = "{}" -> <<>>

\* a parser that answers a string it cannot decode with an empty mapping
_parse_args_lenient(args) ==
  IF args.type = "str"
  THEN IF args.text \in ValidJson THEN Returned(json_loads(args.text))
                                  ELSE Returned(<<>>)
  ELSE IF args.type = "dict" THEN Returned(args.value)
  ELSE Raised("ValueError")

\* _parse_args
_parse_args(args) ==
  IF args.type = "str"
  THEN IF args.text \in ValidJson THEN Returned(json_loads(args.text))
                                  ELSE Raised("ValueError")
  ELSE IF args.type = "dict" THEN Returned(args.value)
  ELSE Raised("ValueError")

\* the args the parts of the lifecycle carry, by their label
ArgOf(label) ==
  CASE label = "json" -> ArgStr("{\"filepath\": \"a.txt\"}")
    [] label = "dict" -> ArgDict([filepath |-> "a.txt"])
    [] OTHER -> ArgStr("{")

\* _parse_args returns for the args with this label
ParseOk(args) == _parse_args(ArgOf(args)).raised = ""

\* a skip test that forgets which tool was remembered
SkipConfirmationAnyTool(name) == yolo \/ tool_ignore # <<>>

\* the test at the head of confirm_func
SkipConfirmation(name) == yolo \/ name \in SeqRange(tool_ignore)

\* a confirmation test that joins the two conditions with "and"
should_confirm_both(tool_name) ==
  ~(yolo /\ tool_name \in SeqRange(tool_ignore))

\* ToolHandler.should_confirm
should_confirm(tool_name) ==
  ~(yolo \/ tool_name \in SeqRange(tool_ignore))

\* a confirmation that never stores the remembered tool
IgnoreAfterAnswerForgets(resp, name) == tool_ignore

\* a confirmation that stores the tool on every answer
IgnoreAfterAnswerAlways(resp, name) == Append(tool_ignore, name)

\* confirm_func: the ignore list after the line typed at the prompt
IgnoreAfterAnswer(resp, name) ==
  IF resp = "2" THEN Append(tool_ignore, name) ELSE tool_ignore

(* ------------------------------ runs ----------------------------------- *)
IdleRun ==
  [pc |-> "idle", task |-> FALSE, output |-> FALSE, must_cancel |-> FALSE,
   expect |-> "echo", calls |-> <<>>, todo |-> <<>>]

\* a finished execution: nothing of it is read any more
DoneRun == [IdleRun EXCEPT !.pc = "done"]

Alive(r) == runs[r].pc \notin {"idle", "done"}

\* a busy test with the negation of done() lost
TaskUnfinishedInverted == current_task # 0 /\ runs[current_task].pc = "done"

\* repl: current_task and not current_task.done()
TaskUnfinished == current_task # 0 /\ runs[current_task].pc # "done"

\* room for one more execution within the bounds
CanStart ==
  nruns < MaxRuns /\ Cardinality({r \in Runs : Alive(r)}) < MaxAlive

\* a confirmation prompt blocks the event loop in input()
\* and the wake-up of a cancelled task is queued ahead of any later event
Blocked == \E r \in Runs : runs[r].pc = "confirm" \/ runs[r].must_cancel

\* the models the registry lists, two of them kept
Models == <<"openai:gpt-4o", "anthropic:claude-3-7-sonnet-latest">>

\* no ToolHandler method was called yet
NoOut == [kind |-> "none"]

NoResult == [call |-> "", tool_name |-> "", value |-> FALSE, out |-> NoOut]

\* no agent run is open
NoAgentRun ==
  [open |-> FALSE, alias |-> FALSE, message_history |-> <<>>,
   expect |-> "echo", calls |-> <<>>]

\* the paths and the contents the tools are called with
Paths == {"a.txt", "b.txt"}
FileContents == {"", "old", "new"}

\* a path with no file, and a file with content
NoFile == [exists |-> FALSE, content |-> ""]
File(content) == [exists |-> TRUE, content |-> content]

\* session.agents = {} and no agent created
NoAgents == [cache |-> [m \in {} |-> 0], made |-> 0]

\* the session as StateManager and session.py construct it
SessionInit ==
  /\ current_model = "openai:gpt-4o"
  /\ result = NoResult
  /\ agent_run = NoAgentRun
  /\ messages = <<>>
  /\ tool_ignore = <<>>
  /\ yolo = FALSE
  /\ spinner = "none"
  /\ current_task = 0
  /\ runs = [r \in Runs |-> IdleRun]
  /\ nruns = 0
  /\ next_id = 0
  /\ sup = "prompt"
  /\ event = ""
  /\ sink = <<>>
  /\ agents = NoAgents

\* a session started in a directory without the files of Paths
Init ==
  /\ SessionInit
  /\ files = [p \in Paths |-> NoFile]

\* process_request up to its first suspension: ui.spinner(True, spinner) awaits
\* run_in_terminal only when no spinner object exists yet; otherwise the
\* spinner starts and agent.process_request opens the agent run with the
\* transcript of that moment as message history
Started(isTask, withOutput) ==
  IF spinner = "none"
  THEN [IdleRun EXCEPT !.pc = "spinner", !.task = isTask, !.output = withOutput]
  ELSE [IdleRun EXCEPT !.pc = "stream", !.task = isTask, !.output = withOutput]

SpinnerAfterStart == IF spinner = "none" THEN "none" ELSE "running"


(* ----------------- process_request: except / finally ------------------- *)
\* a finally block that leaves the handle in place
TaskKept == current_task

\* state_manager.session.current_task = None
TaskAfterFinally == 0

\* _tool_handler, except SidekickAbort: the transcript after the patch
AbortedTranscript == patch_tool_messages(messages, ABORT_MSG)

\* a model-error handler that only prints the error
ModelErrorTranscriptUnpatched == messages

\* except UnexpectedModelBehavior: the transcript after the patch
ModelErrorTranscript == patch_tool_messages(messages, MODEL_ERR)

\* a cancellation handler that patches like the abort handler
CancelledTranscriptPatched == patch_tool_messages(messages, ABORT_MSG)

\* except CancelledError: the transcript is left as it is
CancelledTranscript == messages

\* the finally block of process_request, after the handler that classified
\* the outcome wrote its notices: stop the spinner, clear current_task.  An
\* execution awaited by CompactCommand.execute then returns into it, which
\* reports success and keeps the last two messages.
Finish(r, msgs, notes) ==
  /\ spinner' = "stopped"
  /\ current_task' = TaskAfterFinally
  /\ runs' = [runs EXCEPT ![r] = DoneRun]
  /\ IF runs[r].task
     THEN /\ messages' = msgs
          /\ sink' = notes
          /\ sup' = sup
     ELSE /\ messages' = LastTwo(msgs)
          /\ sink' = notes \o <<NoticeCompacted>>
          /\ sup' = "prompt"

(* --------------------------- supervisor -------------------------------- *)
\* the lines of the model that begin with the command prefix
SlashLines == {"/clear", "/yolo", "/compact", "/model", "/unknown"}

\* the names the registry holds
Registered == {"/clear", "/yolo", "/compact", "/model"}

\* a dispatch that treats only the registered names as commands
IsCommandRegisteredOnly(line) == line \in Registered

\* repl: line.startswith("/")
IsCommand(line) == line \in SlashLines

\* repl, a line that is no command: busy notice, or a new background task
Submit ==
  IF TaskUnfinished
  THEN /\ sink' = <<NoticeBusy>>
       /\ UNCHANGED <<messages, tool_ignore, yolo, spinner, current_task,
                      runs, nruns, next_id, sup>>
  ELSE /\ CanStart
       /\ nruns' = nruns + 1
       /\ current_task' = nruns + 1
       /\ runs' = [runs EXCEPT ![nruns + 1] = Started(TRUE, TRUE)]
       /\ spinner' = SpinnerAfterStart
       /\ sink' = <<>>
       /\ UNCHANGED <<messages, tool_ignore, yolo, next_id, sup>>

\* repl, a line of plain text
PlainText ==
  /\ UNCHANGED aside
  /\ sup = "prompt" /\ ~Blocked
  /\ event' = "text"
  /\ ~IsCommand("text")
  /\ Submit

NoticeUnknown == [style |-> "error", text |-> "Unknown command"]

\* repl, a line with the prefix and a name the registry does not hold:
\* CommandRegistry.execute raises ValidationError, which is no ValueError, so
\* _handle_command lets it pass and it leaves repl; the caller prints it, and
\* asyncio.run cancels the tasks that are left
UnknownCommand ==
  /\ UNCHANGED aside
  /\ sup = "prompt" /\ ~Blocked
  /\ event' = "/unknown"
  /\ IF IsCommand("/unknown")
     THEN /\ sup' = "crashed"
          /\ sink' = <<NoticeUnknown>>
          /\ runs' = [r \in Runs |->
                        IF Alive(r) THEN [runs[r] EXCEPT !.must_cancel = TRUE]
                                    ELSE runs[r]]
          /\ UNCHANGED <<messages, tool_ignore, yolo, spinner, current_task,
                         nruns, next_id>>
     ELSE Submit

\* the escape key binding: current_task.cancel() when a task is set and not
\* done; without such a task the key does nothing
_cancel ==
  /\ UNCHANGED aside
  /\ sup = "prompt" /\ ~Blocked
  /\ event' = "escape"
  /\ current_task # 0 /\ runs[current_task].pc # "done"
  /\ runs' = [runs EXCEPT ![current_task].must_cancel = TRUE]
  /\ sink' = <<>>
  /\ UNCHANGED <<messages, tool_ignore, yolo, spinner, current_task, nruns,
                 next_id, sup>>

\* /clear
ClearCommand ==
  /\ UNCHANGED aside
  /\ sup = "prompt" /\ ~Blocked
  /\ event' = "/clear"
  /\ messages' = <<>>
  /\ sink' = <<>>
  /\ UNCHANGED <<tool_ignore, yolo, spinner, current_task, runs, nruns,
                 next_id, sup>>

\* /yolo
YoloCommand ==
  /\ UNCHANGED aside
  /\ sup = "prompt" /\ ~Blocked
  /\ event' = "/yolo"
  /\ yolo' = ~yolo
  /\ sink' = <<IF yolo THEN NoticeYoloOff ELSE NoticeYoloOn>>
  /\ UNCHANGED <<messages, tool_ignore, spinner, current_task, runs, nruns,
                 next_id, sup>>

\* /compact: process_request is awaited inside the repl coroutine
CompactCommand ==
  /\ UNCHANGED aside
  /\ sup = "prompt" /\ ~Blocked
  /\ event' = "/compact"
  /\ CanStart
  /\ nruns' = nruns + 1
  /\ runs' = [runs EXCEPT ![nruns + 1] = Started(FALSE, FALSE)]
  /\ spinner' = SpinnerAfterStart
  /\ sup' = "awaiting"
  /\ sink' = <<>>
  /\ UNCHANGED <<messages, tool_ignore, yolo, current_task, next_id>>

\* the arguments of /model: none, a word that is no number, or an index
ModelArgs == {"", "x", "-1", "0", "1", "2"}

\* int(args[0]) for the words that are numbers
IntOf(arg) ==
  CASE arg = "-1" -> -1 [] arg = "0" -> 0 [] arg = "1" -> 1 [] arg = "2" -> 2

\* int(args[0]) raises ValueError
NotInt(arg) == arg \notin {"-1", "0", "1", "2"}

NoticeModels == [style |-> "panel", text |-> "Models"]
NoticeInvalidIndex == [style |-> "error", text |-> "Invalid model index"]
NoticeIndexRange == [style |-> "error", text |-> "Model index out of range"]
NoticeDefault == [style |-> "muted", text |-> "Updating default model"]
NoticeUsing == [style |-> "info", text |-> "Using model"]
NoticeSwitched == [style |-> "success", text |-> "Switched to model"]

\* models[model_index]: a list index, counted from the end when negative
ModelAt(model_index) == Models[(model_index % Len(Models)) + 1]

\* a range test without the lower bound
OutOfRangeAbove(model_index) == model_index >= Len(Models)

\* if model_index < 0 or model_index >= len(models)
OutOfRange(model_index) == model_index < 0 \/ model_index >= Len(Models)

\* ModelCommand.execute with the argument arg, followed or not by "default"
ModelCommandWith(arg, default) ==
  IF arg = ""
  THEN /\ ~default
       /\ sink' = <<NoticeModels>>
       /\ current_model' = current_model
  ELSE IF NotInt(arg)
  THEN /\ sink' = <<NoticeInvalidIndex>>
       /\ current_model' = current_model
  ELSE IF OutOfRange(IntOf(arg))
  THEN /\ sink' = <<NoticeIndexRange>>
       /\ current_model' = current_model
  ELSE /\ current_model' = ModelAt(IntOf(arg))
       /\ sink' = IF default THEN <<NoticeDefault, NoticeUsing>>
                             ELSE <<NoticeSwitched>>

\* /model: list the models, or select one by its index (counted from 0);
\* with "default" the repl loop is left and entered again on the same session
ModelCommand ==
  /\ sup = "prompt" /\ ~Blocked
  /\ event' = "/model"
  /\ \E arg \in ModelArgs, default \in BOOLEAN : ModelCommandWith(arg, default)
  /\ UNCHANGED <<messages, tool_ignore, yolo, spinner, current_task, runs,
                 nruns, next_id, sup, result, agent_run, files, agents>>

(* ------------------------ the request lifecycle ----------------------- *)
\* run_in_terminal returns the new spinner; it is started and the agent run
\* is opened with the transcript of that moment as message history
SpinnerCreated(r) ==
  /\ UNCHANGED aside
  /\ event' = ""
  /\ ~Blocked
  /\ runs[r].pc = "spinner" /\ ~runs[r].must_cancel
  /\ spinner' = "running"
  /\ runs' = [runs EXCEPT ![r].pc = "stream"]
  /\ sink' = <<>>
  /\ UNCHANGED <<messages, tool_ignore, yolo, current_task, nruns, next_id,
                 sup>>

Streaming(r) == ~Blocked /\ runs[r].pc = "stream" /\ ~runs[r].must_cancel

\* the agent run yields a node with a message
Yielding(r) == Streaming(r) /\ Len(messages) < MaxLen

\* the tool returns the agent run produces for the calls of its last response
ReturnParts(calls) ==
  [i \in 1..Len(calls) |->
     ToolReturnPart(calls[i].tool_call_id, calls[i].tool_name, "result")]

\* a node with a request: the user prompt, or the results of the tools
NodeRequest(r) ==
  /\ UNCHANGED aside
  /\ event' = ""
  /\ Yielding(r)
  /\ runs[r].expect \in {"echo", "returns"}
  /\ messages' = AppendNode(messages,
       IF runs[r].expect = "echo"
       THEN ModelRequest(<<UserPromptPart>>)
       ELSE ModelRequest(ReturnParts(runs[r].calls)))
  /\ runs' = [runs EXCEPT ![r].expect = "response", ![r].calls = <<>>]
  /\ sink' = <<>>
  /\ UNCHANGED <<tool_ignore, yolo, spinner, current_task, nruns, next_id,
                 sup>>

\* the tool-call parts of a response that asks for the tools in names
NewCalls(names, argss) ==
  [i \in 1..Len(names) |-> ToolCallPart(next_id + i, names[i], argss[i])]

\* a node with a model response: it is appended, and its tool-call parts are
\* then handed to the tool callback one by one
NodeResponse(r) ==
  /\ UNCHANGED aside
  /\ event' = ""
  /\ Yielding(r)
  /\ runs[r].expect = "response"
  /\ \E n \in 0..MaxParts :
       /\ next_id + n <= MaxCalls
       /\ \E names \in [1..n -> Tools], argss \in [1..n -> StreamArgs] :
            LET calls == NewCalls(names, argss) IN
            /\ messages' = AppendNode(messages,
                                       ModelResponse(<<TextPart>> \o calls))
            /\ next_id' = next_id + n
            /\ runs' = [runs EXCEPT ![r].calls = calls, ![r].todo = calls,
                          ![r].expect = IF n = 0 THEN "end" ELSE "returns",
                          ![r].pc = IF n = 0 THEN "stream" ELSE "tool"]
  /\ sink' = <<>>
  /\ UNCHANGED <<tool_ignore, yolo, spinner, current_task, nruns, sup>>

\* where the run goes once the head of todo has passed the gate
AfterPart(r) ==
  [runs EXCEPT ![r].todo = Tail(runs[r].todo),
               ![r].pc = IF Len(runs[r].todo) > 1 THEN "tool" ELSE "stream"]

\* _tool_handler once ui.info has announced the tool: the spinner is stopped
\* and confirm_func is handed to run_in_terminal, which runs it in a later
\* turn of the event loop
ToolBegin(r) ==
  /\ UNCHANGED aside
  /\ event' = ""
  /\ ~Blocked
  /\ runs[r].pc = "tool" /\ ~runs[r].must_cancel
  /\ spinner' = "stopped"
  /\ runs' = [runs EXCEPT ![r].pc = "queued"]
  /\ sink' = <<NoticeTool(Head(runs[r].todo).tool_name)>>
  /\ UNCHANGED <<messages, tool_ignore, yolo, current_task, nruns, next_id,
                 sup>>

\* confirm_func up to input(): parse the arguments, then skip (the handler
\* restarts the spinner in its finally block) or render the panel and prompt
confirm_func(r) ==
  /\ UNCHANGED aside
  /\ event' = ""
  /\ ~Blocked
  /\ runs[r].pc = "queued" /\ ~runs[r].must_cancel
  /\ LET part == Head(runs[r].todo) IN
     IF ~ParseOk(part.args)
     THEN /\ Finish(r, messages, <<NoticeError>>)
          /\ UNCHANGED <<tool_ignore, yolo, nruns, next_id>>
     ELSE IF SkipConfirmation(part.tool_name)
     THEN /\ spinner' = "running"
          /\ runs' = AfterPart(r)
          /\ sink' = <<>>
          /\ UNCHANGED <<messages, tool_ignore, yolo, current_task, nruns,
                         next_id, sup>>
     ELSE /\ runs' = [runs EXCEPT ![r].pc = "confirm"]
          /\ sink' = <<NoticePanel>>
          /\ UNCHANGED <<messages, tool_ignore, yolo, spinner, current_task,
                         nruns, next_id, sup>>

\* what input() returns at the prompt, after strip() and the default
Answers == {"1", "2", "3", "no"}

\* input() raises EOFError when the input has ended
EOF == "EOFError"

\* a prompt that takes every line but 1 and 2 as a refusal
IsAbortUnlessYes(resp) == resp \notin {"1", "2"}

\* confirm_func: elif resp == "3": return True
IsAbort(resp) == resp = "3"

\* the line typed at the confirmation prompt
ConfirmAnswer(r) ==
  /\ UNCHANGED aside
  /\ runs[r].pc = "confirm"
  /\ \E resp \in Answers \cup {EOF} :
       LET part == Head(runs[r].todo) IN
       /\ event' = resp
       /\ IF resp = EOF
          THEN /\ Finish(r, messages, <<NoticeError>>)
               /\ UNCHANGED <<tool_ignore, yolo, nruns, next_id>>
          ELSE IF IsAbort(resp)
          THEN /\ Finish(r, AbortedTranscript, <<NoticeAborted>>)
               /\ UNCHANGED <<tool_ignore, yolo, nruns, next_id>>
          ELSE /\ tool_ignore' = IgnoreAfterAnswer(resp, part.tool_name)
               /\ spinner' = "running"
               /\ runs' = AfterPart(r)
               /\ sink' = <<>>
               /\ UNCHANGED <<messages, yolo, current_task, nruns, next_id,
                              sup>>

\* the agent run is exhausted
StreamEnd(r) ==
  /\ UNCHANGED aside
  /\ event' = ""
  /\ Streaming(r)
  /\ runs[r].expect = "end"
  /\ IF runs[r].output
     THEN /\ runs' = [runs EXCEPT ![r].pc = "output"]
          /\ sink' = <<>>
          /\ UNCHANGED <<messages, spinner, current_task, sup>>
     ELSE Finish(r, messages, <<>>)
  /\ UNCHANGED <<tool_ignore, yolo, nruns, next_id>>

\* an output step that prints the answer twice
OutputNotesTwice == <<NoticeAnswer, NoticeAnswer>>

\* ui.agent(res.result.output)
OutputNotes == <<NoticeAnswer>>

\* if output: await ui.agent(...), then the finally block
Output(r) ==
  /\ UNCHANGED aside
  /\ event' = ""
  /\ ~Blocked
  /\ runs[r].pc = "output" /\ ~runs[r].must_cancel
  /\ Finish(r, messages, OutputNotes)
  /\ UNCHANGED <<tool_ignore, yolo, nruns, next_id>>

\* the agent run raises UnexpectedModelBehavior
ModelBehaviorError(r) ==
  /\ UNCHANGED aside
  /\ event' = ""
  /\ Streaming(r)
  /\ runs[r].expect # "end"
  /\ Finish(r, ModelErrorTranscript, <<NoticeModelError>>)
  /\ UNCHANGED <<tool_ignore, yolo, nruns, next_id>>

\* the agent run raises any other exception
OtherError(r) ==
  /\ UNCHANGED aside
  /\ event' = ""
  /\ Streaming(r)
  /\ runs[r].expect # "end"
  /\ Finish(r, messages, <<NoticeError>>)
  /\ UNCHANGED <<tool_ignore, yolo, nruns, next_id>>

\* CancelledError is thrown into the task at the await it is suspended on
Cancelled(r) ==
  /\ UNCHANGED aside
  /\ event' = ""
  /\ runs[r].must_cancel
  /\ runs[r].pc \in {"spinner", "stream", "tool", "queued", "output"}
  /\ IF runs[r].pc = "spinner"
     THEN /\ runs' = [runs EXCEPT ![r] = DoneRun]
          /\ sink' = <<>>
          /\ UNCHANGED <<messages, spinner, current_task, sup>>
     ELSE Finish(r, CancelledTranscript, <<NoticeCancelled>>)
  /\ UNCHANGED <<tool_ignore, yolo, nruns, next_id>>

Next ==
  \/ PlainText
  \/ _cancel
  \/ ClearCommand
  \/ YoloCommand
  \/ CompactCommand
  \/ ModelCommand
  \/ UnknownCommand
  \/ \E r \in Runs : SpinnerCreated(r)
  \/ \E r \in Runs : NodeRequest(r)
  \/ \E r \in Runs : NodeResponse(r)
  \/ \E r \in Runs : ToolBegin(r)
  \/ \E r \in Runs : confirm_func(r)
  \/ \E r \in Runs : ConfirmAnswer(r)
  \/ \E r \in Runs : StreamEnd(r)
  \/ \E r \in Runs : Output(r)
  \/ \E r \in Runs : ModelBehaviorError(r)
  \/ \E r \in Runs : OtherError(r)
  \/ \E r \in Runs : Cancelled(r)

Spec == Init /\ [][Next]_vars

\* the steps of one execution of process_request
RunStep(r) ==
  \/ SpinnerCreated(r)
  \/ NodeRequest(r)
  \/ NodeResponse(r)
  \/ ToolBegin(r)
  \/ confirm_func(r)
  \/ ConfirmAnswer(r)
  \/ StreamEnd(r)
  \/ Output(r)
  \/ ModelBehaviorError(r)
  \/ OtherError(r)
  \/ Cancelled(r)

\* the event loop runs every coroutine that is ready, the stream of nodes is
\* finite, and a prompt that waits is answered; the user owes no further line
SpecFair == Spec /\ \A r \in Runs : WF_vars(RunStep(r))

(* ---------------- ToolHandler and StateManager, called directly -------- *)
\* what the lifecycle and the legacy agent own
lifecycle == <<messages, spinner, current_task, runs, nruns, next_id, sup,
               current_model, agent_run, agents, files>>

\* ToolConfirmationResponse
Response(approved, skip_future, abort) ==
  [approved |-> approved, skip_future |-> skip_future, abort |-> abort]

\* the responses show_confirmation builds for the answers 1, 2 and 3
Responses ==
  {Response(TRUE, FALSE, FALSE), Response(TRUE, TRUE, FALSE),
   Response(FALSE, FALSE, TRUE)}

\* ToolHandler.process_confirmation: the ignore list after the call
IgnoreAfterConfirmation(response, tool_name) ==
  IF response.skip_future THEN Append(tool_ignore, tool_name) ELSE tool_ignore

\* ToolHandler.should_confirm(tool_name) is called
ShouldConfirmCall ==
  /\ event' = "should_confirm"
  /\ \E tool_name \in Tools :
       result' = [call |-> "should_confirm", tool_name |-> tool_name,
                  value |-> should_confirm(tool_name), out |-> NoOut]
  /\ sink' = <<>>
  /\ UNCHANGED <<tool_ignore, yolo>>
  /\ UNCHANGED lifecycle

\* every value of the dataclass ToolConfirmationResponse
AllResponses ==
  {Response(approved, skip_future, abort) :
     approved \in BOOLEAN, skip_future \in BOOLEAN, abort \in BOOLEAN}

\* ToolHandler.process_confirmation(response, tool_name) is called
process_confirmation ==
  /\ event' = "process_confirmation"
  /\ Len(tool_ignore) < MaxIgnore
  /\ \E response \in AllResponses, tool_name \in Tools :
       /\ tool_ignore' = IgnoreAfterConfirmation(response, tool_name)
       /\ result' = [call |-> "process_confirmation", tool_name |-> tool_name,
                     value |-> response.approved /\ ~response.abort,
                     out |-> [response |-> response]]
  /\ sink' = <<>>
  /\ UNCHANGED yolo
  /\ UNCHANGED lifecycle

\* StateManager.reset_session: a fresh SessionState
reset_session ==
  /\ event' = "reset_session"
  /\ tool_ignore' = <<>>
  /\ yolo' = FALSE
  /\ sink' = <<>>
  /\ UNCHANGED result
  /\ UNCHANGED lifecycle

\* the lines a user can type at the confirmation prompt
PromptLines == {"", "1", "2", "3", " 2 ", "  ", "4", "no"}

\* str.strip
strip(line) == CASE line = " 2 " -> "2" [] line = "  " -> "" [] OTHER -> line

\* a prompt whose default is the last option
show_confirmation_deny_default(line) ==
  LET resp == IF strip(line) = "" THEN "3" ELSE strip(line) IN
  IF resp = "2" THEN Response(TRUE, TRUE, FALSE)
  ELSE IF resp = "3" THEN Response(FALSE, FALSE, TRUE)
  ELSE Response(TRUE, FALSE, FALSE)

\* ToolUI.show_confirmation and show_sync_confirmation, from the line read
show_confirmation(line) ==
  LET resp == IF strip(line) = "" THEN "1" ELSE strip(line) IN
  IF resp = "2" THEN Response(TRUE, TRUE, FALSE)
  ELSE IF resp = "3" THEN Response(FALSE, FALSE, TRUE)
  ELSE Response(TRUE, FALSE, FALSE)

\* a confirmation is shown and a line is typed
ShowConfirmationCall ==
  /\ event' = "show_confirmation"
  /\ \E tool_name \in Tools, line \in PromptLines :
       result' = [call |-> "show_confirmation", tool_name |-> tool_name,
                  value |-> FALSE,
                  out |-> [line |-> line, response |-> show_confirmation(line)]]
  /\ sink' = <<NoticePanel>>
  /\ UNCHANGED <<tool_ignore, yolo>>
  /\ UNCHANGED lifecycle

\* the args a tool-call part can carry
ToolArgs ==
  {ArgStr("{\"filepath\": \"a.txt\"}"), ArgStr("{}"), ArgStr("{"),
   ArgStr(""), ArgStr("ls -la"), ArgDict([filepath |-> "a.txt"]),
   ArgDict(<<>>), ArgOther}

\* _parse_args(args) is called
ParseArgsCall ==
  /\ event' = "_parse_args"
  /\ \E args \in ToolArgs :
       result' = [call |-> "_parse_args", tool_name |-> "", value |-> FALSE,
                  out |-> [args |-> args, got |-> _parse_args(args)]]
  /\ sink' = <<>>
  /\ UNCHANGED <<tool_ignore, yolo>>
  /\ UNCHANGED lifecycle

(* ------------------------------ the tools ------------------------------ *)
\* the tools with a function in tools/
ToolFunctions == {"read_file", "write_file", "run_command"}

\* what _execute does: it returns, or it raises one of these
Outcomes(tool) ==
  IF tool = "read_file"
  THEN {"ok", "FileNotFoundError", "UnicodeDecodeError", "PermissionError",
        "ToolExecutionError"}
  ELSE IF tool = "write_file"
  THEN {"ok", "ModelRetry", "PermissionError"}
  ELSE {"ok", "FileNotFoundError", "OSError"}

\* what a tool function gives back: a string, None, or an exception
ReturnedStr(text) == [raised |-> "", kind |-> "str", text |-> text]
ReturnedNone == [raised |-> "", kind |-> "None", text |-> ""]
RaisedBy(e) == [raised |-> e, kind |-> "", text |-> ""]

\* BaseTool._handle_error
base_handle_error(tool, error) == ReturnedStr("Error")

\* ReadFileTool._handle_error, RunCommandTool._handle_error, and the one
\* WriteFileTool inherits
_handle_error(tool, error) ==
  IF tool = "read_file"
  THEN IF error \in {"FileNotFoundError", "UnicodeDecodeError"}
       THEN RaisedBy("ToolExecutionError")
       ELSE ReturnedNone
  ELSE IF tool = "run_command" /\ error = "FileNotFoundError"
  THEN ReturnedStr("Error")
  ELSE base_handle_error(tool, error)

\* BaseTool.execute
execute(tool, outcome) ==
  IF outcome = "ok" THEN ReturnedStr("result")
  ELSE IF outcome = "ModelRetry" THEN RaisedBy("ModelRetry")
  ELSE _handle_error(tool, outcome)

\* read_file, write_file, run_command: the functions the agent calls
tool_function(tool, outcome) ==
  LET got == execute(tool, outcome) IN
  IF tool \in {"read_file", "write_file"} /\ got.raised = "ToolExecutionError"
  THEN ReturnedStr("Error")
  ELSE got

\* the agent calls a tool function
ToolFunctionCall ==
  /\ event' = "tool_function"
  /\ \E tool \in ToolFunctions :
       \E outcome \in Outcomes(tool) :
         result' = [call |-> "tool_function", tool_name |-> tool,
                    value |-> FALSE,
                    out |-> [outcome |-> outcome,
                             got |-> tool_function(tool, outcome)]]
  /\ sink' = <<>>
  /\ UNCHANGED <<tool_ignore, yolo>>
  /\ UNCHANGED lifecycle

HandlerNext ==
  \/ ShouldConfirmCall
  \/ process_confirmation
  \/ YoloCommand
  \/ reset_session
  \/ ShowConfirmationCall
  \/ ParseArgsCall
  \/ ToolFunctionCall

SpecHandler == Init /\ [][HandlerNext]_vars

(* ---------------- the tools and the rendering of their arguments -------- *)
\* what a call of a tool function or of a renderer leaves alone
session == <<messages, tool_ignore, yolo, spinner, current_task, runs, nruns,
             next_id, sup, current_model, agent_run, agents>>

\* a write that does not test whether the file exists
WriteOutcomeNoCheck(file, denied) ==
  IF denied THEN "PermissionError" ELSE "ok"

\* WriteFileTool._execute: what it does for the file at the path, when the
\* directory does or does not let the file be created
WriteOutcome(file, denied) ==
  IF file.exists THEN "ModelRetry"
  ELSE IF denied THEN "PermissionError"
  ELSE "ok"

\* the agent calls write_file(filepath, content)
write_file ==
  /\ event' = "write_file"
  /\ \E filepath \in Paths, content \in FileContents, denied \in BOOLEAN :
       LET outcome == WriteOutcome(files[filepath], denied) IN
       /\ files' = IF outcome = "ok"
                   THEN [files EXCEPT ![filepath] = File(content)]
                   ELSE files
       /\ result' = [call |-> "write_file", tool_name |-> "write_file",
                     value |-> FALSE,
                     out |-> [filepath |-> filepath, content |-> content,
                              got |-> tool_function("write_file", outcome)]]
  /\ sink' = <<>>
  /\ UNCHANGED session

\* the lines of the texts handed to the diff
Lines == {"a", "b", "c"}

\* str.splitlines of the texts: no line for the empty text
Texts == UNION {[1..n -> Lines] : n \in 0..MaxLines}

\* the lines of a text written with one prefix
Tagged(prefix, lines) ==
  [k \in 1..Len(lines) |-> [prefix |-> prefix, line |-> lines[k], end |-> "\n"]]

\* the blocks of lines the two texts share: start in each, and length
Blocks(t, p) ==
  {b \in (1..Len(t)) \X (1..Len(p)) \X (1..Len(t)) :
     /\ b[1] + b[3] - 1 <= Len(t)
     /\ b[2] + b[3] - 1 <= Len(p)
     /\ \A d \in 0..(b[3] - 1) : t[b[1] + d] = p[b[2] + d]}

\* the longest block, the earliest in the target and then in the patch
LongestBlock(t, p) ==
  CHOOSE b \in Blocks(t, p) :
    \A c \in Blocks(t, p) :
      \/ b[3] > c[3]
      \/ b[3] = c[3] /\ b[1] < c[1]
      \/ b[3] = c[3] /\ b[1] = c[1] /\ b[2] <= c[2]

RECURSIVE Diff(_, _)
\* the line diff of two texts: shared blocks as context, and between them
\* the lines of the target as removals, then those of the patch as additions
Diff(target, patch) ==
  IF Blocks(target, patch) = {}
  THEN Tagged("- ", target) \o Tagged("+ ", patch)
  ELSE LET b == LongestBlock(target, patch) IN
       Diff(SubSeq(target, 1, b[1] - 1), SubSeq(patch, 1, b[2] - 1))
       \o Tagged("  ", SubSeq(target, b[1], b[1] + b[3] - 1))
       \o Diff(SubSeq(target, b[1] + b[3], Len(target)),
               SubSeq(patch, b[2] + b[3], Len(patch)))

\* render_file_diff, as the function from the two texts to the diff
render_file_diff ==
  [target \in Texts, patch \in Texts |-> Diff(target, patch)]

\* a renderer that hands the texts over in the other order
_render_args_swapped(tool_name, args) ==
  IF tool_name = "update_file"
  THEN [kind |-> "diff", lines |-> render_file_diff[args.patch, args.target]]
  ELSE IF tool_name = "write_file"
  THEN [kind |-> "code", lines |-> <<>>]
  ELSE [kind |-> "listing", lines |-> <<>>]

\* _render_args
_render_args(tool_name, args) ==
  IF tool_name = "update_file"
  THEN [kind |-> "diff", lines |-> render_file_diff[args.target, args.patch]]
  ELSE IF tool_name = "write_file"
  THEN [kind |-> "code", lines |-> <<>>]
  ELSE [kind |-> "listing", lines |-> <<>>]

\* the arguments the tools are called with
ArgsOf(tool_name) ==
  IF tool_name = "update_file"
  THEN {[target |-> t, patch |-> p] : t \in Texts, p \in Texts}
  ELSE IF tool_name = "write_file"
  THEN {[filepath |-> f, content |-> c] : f \in Paths, c \in FileContents}
  ELSE {[command |-> "ls"]}

\* confirm_func renders the arguments of a tool call for the panel it shows
RenderArgsCall ==
  /\ event # "_render_args"
  /\ event' = "_render_args"
  /\ \E tool_name \in {"update_file", "write_file", "run_command"} :
       \E args \in ArgsOf(tool_name) :
         result' = [call |-> "_render_args", tool_name |-> tool_name,
                    value |-> FALSE,
                    out |-> [args |-> args,
                             content |-> _render_args(tool_name, args)]]
  /\ sink' = <<NoticePanel>>
  /\ UNCHANGED files
  /\ UNCHANGED session

\* confirm_func reads the line that answers the panel
PanelAnswered ==
  /\ event = "_render_args"
  /\ event' \in Answers
  /\ result' = NoResult
  /\ sink' = <<>>
  /\ UNCHANGED files
  /\ UNCHANGED session

\* a session started in a directory with any of the files of Paths
ToolsInit ==
  /\ SessionInit
  /\ files \in [Paths -> {NoFile} \cup {File(c) : c \in FileContents}]

SpecTools == ToolsInit /\ [][write_file]_vars

RenderNext ==
  \/ RenderArgsCall
  \/ PanelAnswered

SpecRender == Init /\ [][RenderNext]_vars

(* ---------------- MainAgent.process_request (agents/main.py) ----------- *)
\* what the legacy agent leaves alone
outside == <<tool_ignore, yolo, spinner, current_task, runs, nruns, sup,
             result, files>>

\* the request that carries the text of the guide file
GuideRequest ==
  ModelRequest(<<Part("user-prompt", 0, "", "", "guide")>>)

\* MainAgent._inject_guide, handed to agent.iter as message_history: a new
\* list when the guide file exists, the list session.messages itself when
\* it does not
_inject_guide(exists) ==
  [open |-> TRUE, alias |-> ~exists,
   message_history |-> IF exists THEN Append(messages, GuideRequest)
                                 ELSE messages,
   expect |-> "echo", calls |-> <<>>]

\* the names a dict object has as attributes, some of them
DictAttributes == {"get", "keys", "items", "values", "pop", "update"}

\* hasattr(obj, name), for an object with these attributes
hasattr(attributes, name) == name \in attributes

\* MainAgent.get_agent with session.current_model = model: session.agents
\* and the count of created agents after the call
get_agent(model) ==
  IF ~hasattr(DictAttributes, model)
  THEN [cache |-> [m \in DOMAIN agents.cache \cup {model} |->
                     IF m = model THEN agents.made + 1 ELSE agents.cache[m]],
        made |-> agents.made + 1]
  ELSE agents

\* process_request up to agent.iter; self.agent is None until the first
\* get_agent
LegacySubmit ==
  /\ event' = "text"
  /\ ~agent_run.open
  /\ \E exists \in BOOLEAN : agent_run' = _inject_guide(exists)
  /\ agents' = IF agents.made = 0 THEN get_agent(current_model) ELSE agents
  /\ sink' = <<>>
  /\ UNCHANGED <<messages, next_id, current_model>>
  /\ UNCHANGED outside

\* the indexes /model is given in the legacy shell
ModelIndexes == {"0", "1", "2"}

\* MainAgent.switch_model(model_index)
switch_model ==
  /\ event' = "switch_model"
  /\ ~agent_run.open
  /\ agents.made < MaxAgents
  /\ \E model_index \in ModelIndexes :
       IF IntOf(model_index) < Len(Models)
       THEN /\ current_model' = Models[IntOf(model_index) + 1]
            /\ agents' = get_agent(current_model')
            /\ sink' = <<NoticeUsing>>
       ELSE /\ sink' = <<NoticeInvalidIndex>>
            /\ UNCHANGED <<current_model, agents>>
  /\ UNCHANGED <<messages, next_id, agent_run>>
  /\ UNCHANGED outside

\* session.messages.append(m), seen through every name of that list
LegacyAppend(m, expect, calls) ==
  /\ messages' = AppendNode(messages, m)
  /\ agent_run' =
       [agent_run EXCEPT
          !.expect = expect, !.calls = calls,
          !.message_history =
             IF agent_run.alias THEN AppendNode(agent_run.message_history, m)
                                ELSE agent_run.message_history]

\* a node with a request
LegacyNodeRequest ==
  /\ event' = ""
  /\ agent_run.open /\ Len(messages) < MaxLen
  /\ agent_run.expect \in {"echo", "returns"}
  /\ LegacyAppend(IF agent_run.expect = "echo"
                  THEN ModelRequest(<<UserPromptPart>>)
                  ELSE ModelRequest(ReturnParts(agent_run.calls)),
                  "response", <<>>)
  /\ sink' = <<>>
  /\ UNCHANGED <<next_id, current_model, agents>>
  /\ UNCHANGED outside

\* a node with a model response
LegacyNodeResponse ==
  /\ event' = ""
  /\ agent_run.open /\ Len(messages) < MaxLen
  /\ agent_run.expect = "response"
  /\ \E n \in 0..MaxParts :
       /\ next_id + n <= MaxCalls
       /\ \E names \in [1..n -> Tools], argss \in [1..n -> StreamArgs] :
            LET calls == NewCalls(names, argss) IN
            /\ LegacyAppend(ModelResponse(<<TextPart>> \o calls),
                            IF n = 0 THEN "end" ELSE "returns", calls)
            /\ next_id' = next_id + n
  /\ sink' = <<>>
  /\ UNCHANGED <<current_model, agents>>
  /\ UNCHANGED outside

\* the agent run is exhausted; a compaction rebinds session.messages
LegacyEnd ==
  /\ event' = ""
  /\ agent_run.open /\ agent_run.expect = "end"
  /\ \E compact \in BOOLEAN :
       messages' = IF compact THEN LastOne(messages) ELSE messages
  /\ agent_run' = NoAgentRun
  /\ sink' = <<NoticeAnswer>>
  /\ UNCHANGED <<next_id, current_model, agents>>
  /\ UNCHANGED outside

LegacyNext ==
  \/ LegacySubmit
  \/ switch_model
  \/ LegacyNodeRequest
  \/ LegacyNodeResponse
  \/ LegacyEnd

SpecLegacy == Init /\ [][LegacyNext]_vars

TypeOK ==
  /\ spinner \in {"none", "running", "stopped"}
  /\ current_task \in 0..MaxRuns
  /\ nruns \in 0..MaxRuns
  /\ yolo \in BOOLEAN


(* ======================== properties ==================================== *)
NoRunAlive == \A r \in Runs : ~Alive(r)

Notices == SeqRange(sink)

HasUserPrompt(m) == \E k \in 1..Len(m.parts) : m.parts[k].part_kind = "user-prompt"

\* index of the first entry after i that carries a user prompt
NextUserTurn(msgs, i) ==
  LET later == {j \in (i + 1)..Len(msgs) : HasUserPrompt(msgs[j])} IN
  IF later = {} THEN Len(msgs) + 1
  ELSE CHOOSE j \in later : \A k \in later : j <= k

Positions(msgs) ==
  UNION {{<<j, l>> : l \in 1..Len(msgs[j].parts)} : j \in 1..Len(msgs)}

ReturnsFor(msgs, id) ==
  {jl \in Positions(msgs) :
     /\ IsToolReturn(msgs[jl[1]].parts[jl[2]])
     /\ msgs[jl[1]].parts[jl[2]].tool_call_id = id}

\* every tool call has exactly one tool return, after it and before the next
\* user turn
AllAnswered(msgs) ==
  \A il \in Positions(msgs) :
    LET p == msgs[il[1]].parts[il[2]] IN
    IsToolCall(p) =>
      /\ Cardinality(ReturnsFor(msgs, p.tool_call_id)) = 1
      /\ \A jl \in ReturnsFor(msgs, p.tool_call_id) :
           il[1] < jl[1] /\ jl[1] < NextUserTurn(msgs, il[1])

\* the last step ended a turn as Completed, Aborted or ModelError
EndedAnswerable ==
  \/ Notices \cap {NoticeAnswer, NoticeAborted, NoticeModelError} # {}
  \/ sink = <<NoticeCompacted>>

\* C1: after a turn that ends Completed, Aborted or ModelError (and no other
\* execution is running), every tool call of the transcript has exactly one
\* tool return with its id, after it and before the next user turn.
C1_AnsweredAfterTurn ==
  (NoRunAlive /\ EndedAnswerable) => AllAnswered(messages)

\* this step opens the agent run of r: the transcript is handed over as history
OpensAgentRun(r) ==
  runs[r].pc \in {"idle", "spinner"} /\ runs'[r].pc = "stream"

\* C2: whenever a turn opens its agent run (and no other execution is
\* running), the transcript handed over as history has no tool call without
\* a tool return.
C2_HistoryAnswered ==
  [][\A r \in Runs :
       (OpensAgentRun(r) /\ \A q \in Runs \ {r} : ~Alive(q))
         => Unanswered(messages') = <<>>]_vars

\* the head of todo passes the gate in this step
PartPassed(r) ==
  /\ runs[r].todo # <<>>
  /\ runs'[r].pc \in {"tool", "stream"}
  /\ runs'[r].todo = Tail(runs[r].todo)

\* C3: an execution awaits the next node only when no tool call of the last
\* response is unresolved, and a tool call passes only from the confirmation
\* prompt (approved) or when yolo is set or its tool is in the ignore list.
C3_NoNodePastUnconfirmed ==
  /\ [](\A r \in Runs : runs[r].pc = "stream" => runs[r].todo = <<>>)
  /\ [][\A r \in Runs :
          PartPassed(r) =>
            \/ runs[r].pc = "confirm"
            \/ yolo
            \/ Head(runs[r].todo).tool_name \in SeqRange(tool_ignore)]_vars

\* both calls of a response were resolved, one of them remembered at the prompt
C3_Witness ==
  \E r \in Runs :
    /\ runs[r].pc = "stream" /\ runs[r].expect = "returns"
    /\ Len(runs[r].calls) = 2
    /\ ~yolo /\ Len(tool_ignore) = 1

Synthetic(p, content) ==
  ModelRequest(<<ToolReturnPart(p.tool_call_id, p.tool_name, content)>>)

\* the prompt of r is answered with option 3 in this step
DenyStep(r) ==
  runs[r].pc = "confirm" /\ event' = "3" /\ runs'[r].pc = "done"

\* C4: after a deny for tool call c the synthetic tool return of c is the
\* last transcript entry, the turn ends Aborted with the muted notice,
\* and the execution consumes no further node.
C4_DenyPatchIsLast ==
  [][\A r \in Runs :
       DenyStep(r) =>
         /\ messages' # <<>>
         /\ messages'[Len(messages')] = Synthetic(Head(runs[r].todo), ABORT_MSG)
         /\ NoticeAborted \in SeqRange(sink')
         /\ runs'[r] = DoneRun]_vars

\* C5: at most one execution of the request lifecycle is alive.
C5_OneLifecycle == Cardinality({r \in Runs : Alive(r)}) <= 1

\* a task is set and not finished
InFlight == current_task # 0 /\ runs[current_task].pc # "done"

\* C6: a /clear or /compact entered while a task is in flight leaves the
\* transcript as it is.
C6_SoleMutator ==
  [][(InFlight /\ event' \in {"/clear", "/compact"})
       => messages' = messages]_vars

\* C7: a plain-text line entered while a task is in flight starts nothing,
\* leaves transcript and current_task unchanged and writes one busy notice.
C7_BusyRejected ==
  [][(InFlight /\ event' = "text") =>
       /\ messages' = messages
       /\ current_task' = current_task
       /\ runs' = runs /\ nruns' = nruns
       /\ sink' = <<NoticeBusy>>]_vars

\* a line was just rejected while the task awaits a node
C7_Witness ==
  /\ event = "text" /\ sink = <<NoticeBusy>>
  /\ InFlight /\ runs[current_task].pc = "stream"

\* C8: when a task whose cancellation was requested finishes, current_task
\* is None and the spinner is not running.
C8_CancelCleanup ==
  [][\A r \in Runs :
       (runs[r].must_cancel /\ runs'[r].pc = "done")
         => (current_task' = 0 /\ spinner' # "running")]_vars

\* C9: when an execution ends otherwise than by cancellation, the spinner is
\* stopped and current_task is None.
C9_CleanupOnReturn ==
  [][\A r \in Runs :
       (Alive(r) /\ ~runs[r].must_cancel /\ runs'[r].pc = "done")
         => (spinner' = "stopped" /\ current_task' = 0)]_vars

\* a turn just ended with the hard error panel, after a second turn was started
C9_Witness ==
  /\ NoticeError \in Notices
  /\ nruns = 2 /\ NoRunAlive
  /\ current_task = 0 /\ spinner = "stopped"

\* C10: escape pressed while a task is in flight requests the cancellation of
\* that task and of no other, and a task whose cancellation was requested
\* ends with the muted "Request cancelled" notice.
C10_EscapeCancels ==
  /\ [][(InFlight /\ event' = "escape") =>
          /\ runs'[current_task].must_cancel
          /\ \A r \in Runs \ {current_task} : runs'[r] = runs[r]]_vars
  /\ [][\A r \in Runs :
          (runs[r].must_cancel /\ runs'[r].pc = "done")
            => NoticeCancelled \in SeqRange(sink')]_vars

\* C11: no execution has a cancellation pending while it is at the
\* confirmation prompt, and a cancellation is delivered to an execution only
\* between nodes, when no tool call of the last response awaits the gate.
C11_CancelOnlyBetweenNodes ==
  /\ [](\A r \in Runs : runs[r].pc = "confirm" => ~runs[r].must_cancel)
  /\ [][\A r \in Runs :
          (runs[r].must_cancel /\ runs'[r].pc = "done")
            => runs[r].todo = <<>>]_vars

\* the prompt of r is shown in this step
PromptShown(r) == runs[r].pc # "confirm" /\ runs'[r].pc = "confirm"

\* C13: a call answered with option 2 is approved and its tool is in the
\* ignore list afterwards; from then on the tool stays in the list, so that
\* should_confirm is false for it whatever yolo is, and no confirmation prompt
\* is shown for it.
C13_RememberedNeverAsked ==
  /\ [][\A r \in Runs :
          (runs[r].pc = "confirm" /\ event' = "2")
            => /\ PartPassed(r)
               /\ Head(runs[r].todo).tool_name \in SeqRange(tool_ignore')]_vars
  /\ [][\A t \in Tools :
          t \in SeqRange(tool_ignore) => t \in SeqRange(tool_ignore')]_vars
  /\ [](\A t \in Tools : t \in SeqRange(tool_ignore) => ~should_confirm(t))
  /\ [][\A r \in Runs :
          PromptShown(r)
            => Head(runs'[r].todo).tool_name \notin SeqRange(tool_ignore)]_vars

\* two calls of one tool have passed, the tool remembered once, yolo unset
C13_Witness ==
  /\ ~yolo /\ Len(tool_ignore) = 1
  /\ \E r \in Runs :
       /\ runs[r].pc = "stream" /\ Len(runs[r].calls) = 2
       /\ runs[r].calls[1].tool_name = runs[r].calls[2].tool_name
       /\ runs[r].calls[1].tool_name \in SeqRange(tool_ignore)

\* C15: the ignore list never loses an entry, and it changes only by the
\* append of the tool whose prompt was answered with option 2; commands,
\* cancellations and denied confirmations leave it as it is.
C15_IgnoreGrowsOnlyByRemember ==
  [][/\ Len(tool_ignore) <= Len(tool_ignore')
     /\ SubSeq(tool_ignore', 1, Len(tool_ignore)) = tool_ignore
     /\ tool_ignore' # tool_ignore =>
          /\ event' = "2"
          /\ \E r \in Runs :
               /\ runs[r].pc = "confirm"
               /\ tool_ignore' =
                    Append(tool_ignore, Head(runs[r].todo).tool_name)]_vars

\* the default model was changed and the repl entered again after a tool
\* was remembered
C15_Witness ==
  /\ tool_ignore # <<>>
  /\ event = "/model"
  /\ sink = <<NoticeDefault, NoticeUsing>>

IsPrefix(s, t) == Len(s) <= Len(t) /\ SubSeq(t, 1, Len(s)) = s

\* the execution awaited by /compact returns in this step
CompactionEnds ==
  \E r \in Runs : ~runs[r].task /\ Alive(r) /\ runs'[r].pc = "done"

\* C16: at every step other than /clear and the truncation of a compaction,
\* the transcript before the step is a prefix of the transcript after it.
C16_AppendOnly ==
  [][(event' # "/clear" /\ ~CompactionEnds)
       => IsPrefix(messages, messages')]_vars

\* a turn with a tool round has put four entries into the transcript
C16_Witness ==
  /\ Len(messages) = 4
  /\ \E r \in Runs : Alive(r) /\ runs[r].expect = "end"
  /\ IsToolReturn(messages[3].parts[1])

\* the last two entries of a transcript of at least two entries
Tail2(msgs) == SubSeq(msgs, Len(msgs) - 1, Len(msgs))

C20_NoPatchOnCancelOrError ==
  [][\A r \in Runs :
       (/\ Alive(r) /\ runs'[r].pc = "done"
        /\ \/ runs[r].must_cancel
           \/ NoticeCancelled \in SeqRange(sink')
           \/ NoticeError \in SeqRange(sink'))
         => \/ messages' = messages
            \/ ~runs[r].task /\ Len(messages) >= 2 /\ messages' = Tail2(messages)]_vars

\* a turn was just cancelled with a tool call of its last response unanswered
C20_Witness ==
  /\ sink = <<NoticeCancelled>>
  /\ Unanswered(messages) # <<>>

\* C12: when should_confirm(tool) has just been called, it returned false
\* exactly if yolo is set or the tool is in the ignore list, and with yolo
\* set it returned false whatever the list holds.
C12_ShouldConfirm ==
  event = "should_confirm" =>
    /\ (result.value = FALSE) <=>
         (yolo \/ \E i \in 1..Len(tool_ignore) :
                    tool_ignore[i] = result.tool_name)
    /\ yolo => result.value = FALSE

\* should_confirm returned true for a tool with another tool remembered
C12_Witness ==
  /\ event = "should_confirm"
  /\ ~yolo /\ tool_ignore # <<>>
  /\ result.tool_name \notin SeqRange(tool_ignore)
  /\ result.value = TRUE

\* C14: however often process_confirmation is called with skip_future for
\* a tool name, the ignore list holds that name at most once.
C14_RememberedOnce ==
  \A t \in Tools :
    Cardinality({i \in 1..Len(tool_ignore) : tool_ignore[i] = t}) <= 1

\* C17: while an agent run is open, the history that was handed to it stays
\* the sequence it was at submission.
C17_HistorySnapshot ==
  [][(agent_run.open /\ agent_run'.open)
       => agent_run'.message_history = agent_run.message_history]_vars

\* the step ends r as Completed
CompletedStep(r) ==
  /\ ~runs[r].must_cancel
  /\ \/ runs[r].pc = "output"
     \/ runs[r].pc = "stream" /\ runs[r].expect = "end" /\ ~runs[r].output
  /\ runs'[r].pc = "done"

\* the messages the handlers of process_request render for a failed turn
FailureNotices ==
  {NoticeCancelled, NoticeAborted, NoticeModelError, NoticeError}

\* C21: every step that ends a turn otherwise than Completed renders one of
\* the failure messages, and the repl coroutine is where it was or back at
\* its prompt.
C21_FailuresHandled ==
  [][\A r \in Runs :
       (Alive(r) /\ runs'[r].pc = "done" /\ ~CompletedStep(r))
         => /\ SeqRange(sink') \cap FailureNotices # {}
            /\ sup' \in {sup, "prompt"}]_vars

\* C22: a line with the prefix and an unknown name renders an error message,
\* leaves the repl at its prompt, and leaves transcript, yolo, ignore list
\* and current_task as they are.
C22_UnknownCommandSurvives ==
  [][event' = "/unknown"
       => /\ NoticeUnknown \in SeqRange(sink')
          /\ sup' = "prompt"
          /\ UNCHANGED <<messages, yolo, tool_ignore, current_task>>]_vars

\* C24: the echo node of a turn appends the user turn; a response with text
\* only appends the model turn and leads to no confirmation prompt; the
\* answer is written once, by the step that ends the turn after the stream,
\* and by no other step.
C24_SimpleAnswer ==
  [][/\ \A r \in Runs :
          /\ (Alive(r) /\ runs[r].expect = "echo"
                /\ runs'[r].expect = "response")
               => messages' = Append(messages, ModelRequest(<<UserPromptPart>>))
          /\ (runs[r].expect = "response" /\ runs'[r].expect = "end")
               => /\ messages' = Append(messages, ModelResponse(<<TextPart>>))
                  /\ runs'[r].pc = "stream"
                  /\ runs'[r].todo = <<>>
                  /\ NoticePanel \notin SeqRange(sink')
          /\ PromptShown(r) => runs[r].todo # <<>>
          /\ (runs[r].pc = "output" /\ ~runs[r].must_cancel
                /\ runs'[r].pc = "done")
               => sink' = <<NoticeAnswer>>
     /\ NoticeAnswer \in SeqRange(sink')
          => \E r \in Runs : runs[r].pc = "output" /\ runs'[r].pc = "done"]_vars

\* the first turn of a session was a question answered with text
C24_Witness ==
  /\ messages = <<ModelRequest(<<UserPromptPart>>), ModelResponse(<<TextPart>>)>>
  /\ sink = <<NoticeAnswer>>
  /\ nruns = 1 /\ next_id = 0 /\ current_task = 0

\* C26: while a run is at the confirmation prompt the spinner is stopped, and
\* the step that answers the prompt with option 1 or 2 leaves the spinner
\* running.
C26_SpinnerStoppedAtPrompt ==
  /\ [](\A r \in Runs : runs[r].pc = "confirm" => spinner = "stopped")
  /\ [][\A r \in Runs :
          (runs[r].pc = "confirm" /\ event' \in {"1", "2"})
            => spinner' = "running"]_vars

\* the tools of the application itself
INTERNAL_TOOLS == {"read_file", "write_file", "update_file", "run_command"}

\* what _log_mcp writes for a tool: its title and its arguments
NoticeMcp(name) == [style |-> "mcp", text |-> name]

\* C27: when a call of a tool that is not internal passes without a prompt,
\* the title and the arguments of the tool were written by the handler.
C27_SkippedExternalLogged ==
  [][\A r \in Runs :
       (/\ runs[r].pc = "queued" /\ PartPassed(r)
        /\ Head(runs[r].todo).tool_name \notin INTERNAL_TOOLS)
         => NoticeMcp(Head(runs[r].todo).tool_name)
              \in SeqRange(sink) \cup SeqRange(sink')]_vars

\* this step creates a background task
TaskCreated == \E r \in Runs : runs[r].pc = "idle" /\ runs'[r].task

C25_PromptDecision ==
  event = "show_confirmation" =>
    LET line == result.out.line
        d == result.out.response IN
    /\ line \in {"", "1"} =>
         (d.approved /\ ~d.skip_future /\ ~d.abort)
    /\ line = "2" => (d.approved /\ d.skip_future /\ ~d.abort)
    /\ line = "3" => (~d.approved /\ ~d.skip_future /\ d.abort)

\* the prompt was answered with an empty line and approved once
C25_Witness ==
  /\ event = "show_confirmation"
  /\ result.out.line = ""
  /\ result.out.response.approved /\ ~result.out.response.skip_future

\* C29: _parse_args returns the decoded mapping for a string of JSON, the
\* mapping itself for a mapping, and raises for a string that is no JSON and
\* for a value of any other type.
C29_ParseArgs ==
  event = "_parse_args" =>
    LET args == result.out.args
        got == result.out.got IN
    /\ (args.type = "str" /\ args.text = "{\"filepath\": \"a.txt\"}")
         => (got.raised = "" /\ got.value = [filepath |-> "a.txt"])
    /\ (args.type = "str" /\ args.text \in {"{", "", "ls -la"})
         => got.raised = "ValueError"
    /\ args.type = "dict" => (got.raised = "" /\ got.value = args.value)
    /\ args.type = "other" => got.raised = "ValueError"

\* _parse_args has just raised for a string that is no JSON
C29_Witness ==
  /\ event = "_parse_args"
  /\ result.out.args.type = "str" /\ result.out.args.text = "ls -la"
  /\ result.out.got.raised = "ValueError"

\* C30: when the execution of a tool fails otherwise than with ModelRetry,
\* the tool function returns a string and does not raise.
C30_ToolErrorsReturned ==
  (event = "tool_function" /\ result.out.outcome \notin {"ok", "ModelRetry"})
    => /\ result.out.got.raised = ""
       /\ result.out.got.kind = "str"

\* every execution that was started ends, and once the task the session
\* holds has ended the busy test of the repl lets a submission through
TurnsEnd ==
  \A r \in Runs :
    /\ Alive(r) ~> (runs[r].pc = "done")
    /\ (current_task = r /\ Alive(r)) ~> ~TaskUnfinished

\* the cleanup of process_request has happened for execution r
CleanedUp(r) ==
  /\ runs[r].pc = "done"
  /\ current_task # r
  /\ spinner # "running"

\* C23: under fairness every execution that was started ends and is cleaned
\* up (spinner stopped, current_task not left on the ended task), and after it
\* the busy test lets a plain-text submission through.
C23_TurnsEndAndCleanUp ==
  /\ TurnsEnd
  /\ \A r \in Runs : runs[r].task ~> CleanedUp(r)

\* C39: get_agent creates an agent only for a model that session.agents does
\* not hold yet; for a model it holds, no agent is created and the cache is
\* left as it is.
C39_AgentCreatedOnce ==
  [][agents'.made > agents.made
       => current_model' \notin DOMAIN agents.cache]_vars

\* C31: write_file on a path that already holds a file raises ModelRetry and
\* leaves every file as it is; no step of the tools changes the content of a
\* file that exists.
C31_NeverOverwrites ==
  [][/\ (event' = "write_file" /\ files[result'.out.filepath].exists)
          => /\ result'.out.got.raised = "ModelRetry"
             /\ files' = files
     /\ \A f \in Paths : files[f].exists => files'[f] = files[f]]_vars

\* write_file was called on a path that holds a file with other content
C31_Witness ==
  /\ event = "write_file"
  /\ result.out.got.raised = "ModelRetry"
  /\ files[result.out.filepath] = File("old")
  /\ result.out.content = "new"

\* the entries of a rendered diff with one of these prefixes, as lines
Project(diff, prefixes) ==
  LET F[k \in 0..Len(diff)] ==
        IF k = 0 THEN <<>>
        ELSE IF diff[k].prefix \in prefixes THEN Append(F[k - 1], diff[k].line)
        ELSE F[k - 1]
  IN F[Len(diff)]

\* between two context lines no removal follows an addition
RemovalsFirst(diff) ==
  \A k \in 1..(Len(diff) - 1) :
    ~(diff[k].prefix = "+ " /\ diff[k + 1].prefix = "- ")

\* what every rendered diff satisfies: the prefixes, the line ends, the order
\* in a replaced block, and the three special cases
DiffShape(target, patch, diff) ==
  /\ \A k \in 1..Len(diff) :
       diff[k].prefix \in {"  ", "- ", "+ "} /\ diff[k].end = "\n"
  /\ RemovalsFirst(diff)
  /\ target = patch => \A k \in 1..Len(diff) : diff[k].prefix = "  "
  /\ target = <<>> => \A k \in 1..Len(diff) : diff[k].prefix = "+ "
  /\ patch = <<>> => \A k \in 1..Len(diff) : diff[k].prefix = "- "

\* a diff was rendered for an update_file call
DiffRendered == event = "_render_args" /\ result.tool_name = "update_file"

C33_TruncateOnlyOnCompleted ==
  [][\A r \in Runs :
       (/\ Alive(r) /\ ~runs[r].task
        /\ runs'[r].pc = "done" /\ ~CompletedStep(r))
         => Len(messages') >= Len(messages)]_vars

\* C34: whenever an execution of process_request is in flight, started by a
\* line of text or by /compact, current_task is the unfinished handle of
\* that execution.
C34_InFlightHasHandle ==
  \A r \in Runs : Alive(r) => (current_task = r /\ runs[r].task)

\* the step passes the call at the prompt of r and leaves the ignore list
ApprovedOnce(r) ==
  /\ PartPassed(r)
  /\ tool_ignore' = tool_ignore
  /\ messages' = messages

\* C35: a prompt answered with a line other than 2 or 3 lets the tool call
\* pass and leaves the ignore list as it is.
C35_OtherInputApproves ==
  [][\A r \in Runs :
       (runs[r].pc = "confirm" /\ event' \in Answers \ {"2", "3"})
         => ApprovedOnce(r)]_vars

\* the prompt was answered with the word no and the call went on
C35_Witness ==
  /\ event = "no"
  /\ \E r \in Runs : Alive(r) /\ runs[r].calls # <<>>
  /\ sink = <<>>

\* C36: when the input ends at a confirmation prompt, the step appends the
\* synthetic return of the denied call and ends the turn with the muted
\* abort notice.
C36_EndOfInputDenies ==
  [][\A r \in Runs :
       (runs[r].pc = "confirm" /\ event' = EOF)
         => /\ runs'[r].pc = "done"
            /\ messages' = AbortedTranscript
            /\ sink' = <<NoticeAborted>>]_vars

\* C37: a call of process_confirmation that enlarges the ignore list returns
\* True, whatever the response holds.
C37_IgnoreOnlyWhenProceeding ==
  [][(event' = "process_confirmation" /\ tool_ignore' # tool_ignore)
       => result'.value = TRUE]_vars

\* the argument is no index of a model
InvalidIndex(arg) == arg \in {"x", "-1", "2"}

====
